---- MODULE Spec2Model ----
(***************************************************************************)
(* The kite-chat shared worker (connection multiplexer): one websocket,    *)
(* one outgoing queue and one message history shared by every attached     *)
(* tab port.  Every handler of the worker is one atomic action (the worker *)
(* is single-threaded and handlers run to completion).                     *)
(***************************************************************************)
EXTENDS Integers, Sequences, FiniteSets, TLC

\* ------------------------------------------------------------------ bounds
\* Each specification explores the handlers within a scope of its own: the
\* number of attached tabs, of messages sent by the tabs, of frames received
\* from the backend, of sockets constructed, of pending timers, of clock steps
\* and of clock steps per reconnection interval.
MaxPorts == 2

QueueTabs == 1
QueueSends == 2
QueueSockets == 2
QueueTimers == 1
QueueTicks == 1
QueueTicksPerInterval == 1

HistoryTabs == 2
HistorySends == 2
HistoryFrames == 2
HistorySockets == 1

ReconnectTabs == 2
ReconnectSends == 1
ReconnectSockets == 2
ReconnectTimers == 1
ReconnectTicks == 1
ReconnectTicksPerInterval == 1

ThrottleTabs == 1
ThrottleSockets == 3
ThrottleTimers == 2
ThrottleTicks == 2
ThrottleTicksPerInterval == 2

FlushQueueLen == 3

InboundTabs == 2
InboundSends == 2
InboundFrames == 2
InboundSockets == 1

StatusTabs == 2
StatusSends == 2
StatusFrames == 1
StatusSockets == 1
StatusTimers == 1

LiveTabs == 1
LiveSends == 1
LiveSockets == 2
LiveTimers == 1
LiveTicks == 2
LiveTicksPerInterval == 1

MaxTabs == 3

ElectionTabs == 2
ElectionInits == 2

PromptTabs == 3
PromptInits == 2

StoreMessages == 2
ViewElements == 3

\* ------------------------------------------------------- program constants
WS_CLOSE_REASON_GONE_AWAY == 1001

MIN_RECONNECTION_INTERVAL_MS == 1000 * 60

\* ------------------------------------------------------------ value spaces
Ports == 1 .. MaxPorts

\* the browser tabs that run a KiteChat client
Tabs == 1 .. MaxTabs

Endpoints == {"wss://a/?c=1", "wss://b/?c=1"}

Null == [type |-> "null"]

None == "none"

\* message ids are strings: a client-generated id is <<"m", n>>, a backend id
\* <<"srv", n>>, and a missing property reads as undefined
Undefined == <<>>

LocalId(n) == <<"m", n>>

CanonicalId(n) == <<"srv", n>>

\* Date.now() when the worker is created: some positive time
StartTime == MIN_RECONNECTION_INTERVAL_MS

\* the transport accepts every send of one handler run
NoLimit == QueueSends + HistorySends + ReconnectSends + FlushQueueLen + 1

VARIABLES
    tabPorts,              \* Set<KiteMessagePort>: the attached tab ports
    joinChannel,           \* the cached JoinChannel request, or Null
    ws,                    \* index into socks of the worker's WebSocket, 0 = null
    socks,                 \* every WebSocket ever constructed, in order
    online,                \* the worker's record of navigator.onLine
    messageHistory,        \* Array<ContentMsg>
    outgoingQueue,         \* Array<KiteMsg>
    connectedTimestampMs,  \* time of the last onWsOpen, 0 before the first
    now,                   \* Date.now()
    timers,                \* the pending setTimeout(triggerWsConnection): the time each
                           \* is due, with the number of sockets constructed when it was set
    wire,                  \* every ws.send call so far: [sock, data], in order
    outbox,                \* the postMessage calls of the last handler: [to, msg]
    thrown,                \* the error the last handler threw, or None
    sendLog,               \* history variable: the envelopes enqueued, in order, each
                           \* with whether the transport was OPEN when it was handled
    received,              \* history variable: number of backend frames handled
    appended,              \* history variable: every entry pushed to messageHistory,
                           \* as pushed, in order
    wsAccepts,             \* ws.send calls one handler run may make before the
                           \* transport stops reporting OPEN (NoLimit in the worker)
    retried,               \* history variable: the sockets onWsClose constructed with no
                           \* delay, each with the time it was constructed
    db,                    \* KiteChat: the message store the tabs share, as the ids of
                           \* the stored messages in the order they were added
    view,                  \* KiteChat: per tab, the ids of the kite-msg elements of its
                           \* chat element, in document order
    constructed,           \* KiteChat: the tabs whose KiteChat has been constructed
    kiteWebsocket,         \* KiteChat: per tab, whether it holds a KiteWebsocket
    kiteChannel,           \* KiteChat: per tab, the BroadcastChannel messages posted by
                           \* the other tabs and not yet delivered, in order
    connectionTimeout,     \* KiteChat: per tab, the id of the timeout initClient set
                           \* last, 0 = null
    timeouts,              \* KiteChat: per tab, the ids of the pending
                           \* KITE_RECONNECT_TIMEOUT timeouts, in the order they were set
    connects               \* KiteChat: per tab, the number of pending zero-delay
                           \* timeouts that call connect()

workerVars == <<tabPorts, joinChannel, ws, socks, online, messageHistory, outgoingQueue,
                connectedTimestampMs, now, timers, wire, outbox, thrown,
                sendLog, received, appended, wsAccepts, retried>>

storeVars == <<db, view>>

electionVars == <<constructed, kiteWebsocket, kiteChannel, connectionTimeout, timeouts, connects>>

vars == <<workerVars, db, view, electionVars>>

\* ----------------------------------------------------------------- messages
ContentMsg(type, id, edited) ==
    [type |-> type, messageId |-> id, status |-> "unknown", edited |-> edited]

Upload(payload) == [type |-> "UPLOAD", messageId |-> payload.messageId]

MsgAck(id, dest) == [type |-> "ACK", messageId |-> id, destiationMessageId |-> dest]

\* The wire codec is an opaque pair: an encoded frame is a value of its own
\* kind (a string or a buffer), not the message it encodes.
encodeKiteMsg(msg) == [frame |-> msg]

decodeKiteMsg(data) == data.frame

IsFrame(x) == "frame" \in DOMAIN x

\* x.field as JavaScript evaluates it: an encoded frame has no such property.
Prop(x, field) == IF IsFrame(x) \/ field \notin DOMAIN x THEN Undefined ELSE x[field]

\* ------------------------------------------------------------------ helpers
RECURSIVE SetToSeq(_)
SetToSeq(S) ==
    IF S = {} THEN <<>>
    ELSE LET m == CHOOSE x \in S : \A y \in S : x <= y
         IN  <<m>> \o SetToSeq(S \ {m})

\* broadcast(msg, exclude): one postMessage per attached port but the excluded
broadcast(msg, exclude) ==
    LET to == SetToSeq(tabPorts \ exclude)
    IN  [i \in 1 .. Len(to) |-> [to |-> to[i], msg |-> msg]]

\* new WebSocket(endpoint, SUBPROTOCOL)
NewSocket == [readyState |-> "CONNECTING", closeArgs |-> <<>>]

\* ws.close(...) on socket s: a socket that is CLOSING or CLOSED ignores it
Close(sk, s, args) ==
    IF sk[s].readyState \in {"CONNECTING", "OPEN"}
    THEN [sk EXCEPT ![s].readyState = "CLOSING", ![s].closeArgs = args]
    ELSE sk

Live(sk) == {s \in 1 .. Len(sk) : sk[s].readyState # "CLOSED"}

\* send(payload): the result of one call, on wire w, as the `sent`-th call
\* of the running handler
send(payload, wsRef, sk, w, sent) ==
    IF wsRef = 0
    THEN [wire |-> w, thrown |-> "No Websocket connection"]
    ELSE IF ~(sk[wsRef].readyState = "OPEN" /\ sent < wsAccepts)
    THEN [wire |-> w, thrown |-> "Websocket is not ready"]
    ELSE [wire |-> Append(w, [sock |-> wsRef, data |-> encodeKiteMsg(payload)]),
          thrown |-> None]

\* a faulty flush loop that shifts the head off the queue before sending it:
\* the envelope whose send fails is lost
RECURSIVE flushShiftFirst(_, _, _, _, _, _)
flushShiftFirst(queueSize, q, wsRef, sk, w, sent) ==
    IF queueSize <= 0
    THEN [queue |-> q, wire |-> w, thrown |-> None]
    ELSE LET r == send(q[1], wsRef, sk, w, sent)
         IN  IF r.thrown # None
             THEN [queue |-> Tail(q), wire |-> w, thrown |-> r.thrown]
             ELSE flushShiftFirst(queueSize - 1, Tail(q), wsRef, sk, r.wire, sent + 1)

\* a faulty flush loop that sends the newest envelope first
RECURSIVE flushNewestFirst(_, _, _, _, _, _)
flushNewestFirst(queueSize, q, wsRef, sk, w, sent) ==
    IF queueSize <= 0
    THEN [queue |-> q, wire |-> w, thrown |-> None]
    ELSE LET r == send(q[Len(q)], wsRef, sk, w, sent)
         IN  IF r.thrown # None
             THEN [queue |-> q, wire |-> w, thrown |-> r.thrown]
             ELSE flushNewestFirst(queueSize - 1, SubSeq(q, 1, Len(q) - 1), wsRef, sk,
                                   r.wire, sent + 1)

\* the while loop of flushQueue
RECURSIVE flushLoop(_, _, _, _, _, _)
flushLoop(queueSize, q, wsRef, sk, w, sent) ==
    IF queueSize <= 0
    THEN [queue |-> q, wire |-> w, thrown |-> None]
    ELSE LET r == send(q[1], wsRef, sk, w, sent)
         IN  IF r.thrown # None
             THEN [queue |-> q, wire |-> w, thrown |-> r.thrown]
             ELSE flushLoop(queueSize - 1, Tail(q), wsRef, sk, r.wire, sent + 1)

\* a faulty flush that writes the envelopes and leaves them in the queue
flushNoShift(q, wsRef, sk, w, sent) ==
    [flushLoop(Len(q), q, wsRef, sk, w, sent) EXCEPT !.queue = q]

flushQueue(q, wsRef, sk, w, sent) == flushLoop(Len(q), q, wsRef, sk, w, sent)

\* triggerWsConnection(), with joinChannel jc, on the sockets sk
triggerWsConnection(jc, sk) ==
    IF jc = Null
    THEN /\ thrown' = "Missing websocket connection configuration"
         /\ socks' = sk
         /\ ws' = ws
    ELSE /\ socks' = Append(sk, NewSocket)
         /\ ws' = Len(sk) + 1
         /\ thrown' = None

\* the envelopes written to the wire so far, in order (Join frames left out)
WireEnvelopes ==
    LET idx == SetToSeq({i \in 1 .. Len(wire) : decodeKiteMsg(wire[i].data).type # "JOIN"})
    IN  [i \in 1 .. Len(idx) |-> decodeKiteMsg(wire[idx[i]].data)]

\* the envelopes enqueued so far, in the order the Sends were handled
SentEnvelopes == [i \in 1 .. Len(sendLog) |-> sendLog[i].envelope]

\* -------------------------------------------------------------------- Init
Init ==
    /\ tabPorts = {}
    /\ joinChannel = Null
    /\ ws = 0
    /\ socks = <<>>
    /\ online \in BOOLEAN
    /\ messageHistory = <<>>
    /\ outgoingQueue = <<>>
    /\ connectedTimestampMs = 0
    /\ now = StartTime
    /\ timers = <<>>
    /\ wire = <<>>
    /\ outbox = <<>>
    /\ thrown = None
    /\ sendLog = <<>>
    /\ received = 0
    /\ appended = <<>>
    /\ wsAccepts = NoLimit
    /\ retried = {}
    /\ db = <<>>
    /\ view = [tab \in Ports |-> <<>>]
    /\ constructed = {}
    /\ kiteWebsocket = [tab \in Tabs |-> FALSE]
    /\ kiteChannel = [tab \in Tabs |-> <<>>]
    /\ connectionTimeout = [tab \in Tabs |-> 0]
    /\ timeouts = [tab \in Tabs |-> <<>>]
    /\ connects = [tab \in Tabs |-> 0]

\* ------------------------------------------------------------- tab events
\* a faulty attach that replays the history without its oldest entry
onTabConnectedRecent(port) ==
    /\ port \notin tabPorts
    /\ \A other \in Ports \ tabPorts : port <= other
    /\ tabPorts' = tabPorts \cup {port}
    /\ outbox' = <<[to |-> port,
                    msg |-> [type |-> "CONNECTED", messageHistory |-> IF messageHistory = <<>> THEN <<>>
                                               ELSE Tail(messageHistory)]]>>
    /\ thrown' = None
    /\ UNCHANGED <<joinChannel, ws, socks, online, messageHistory, appended, outgoingQueue,
                   connectedTimestampMs, now, timers, wire, sendLog, received, wsAccepts, retried, db, view, electionVars>>

\* the ports are interchangeable: a new port is the first unused handle
onTabConnected(port) ==
    /\ port \notin tabPorts
    /\ \A other \in Ports \ tabPorts : port <= other
    /\ tabPorts' = tabPorts \cup {port}
    /\ outbox' = <<[to |-> port,
                    msg |-> [type |-> "CONNECTED", messageHistory |-> messageHistory]]>>
    /\ thrown' = None
    /\ UNCHANGED <<joinChannel, ws, socks, online, messageHistory, appended, outgoingQueue,
                   connectedTimestampMs, now, timers, wire, sendLog, received, wsAccepts, retried, db, view, electionVars>>

onJoinChannel(port, payload) ==
    LET first == IF joinChannel = Null THEN payload ELSE joinChannel
        jc == [first EXCEPT !.eagerlyConnect = first.eagerlyConnect \/ payload.eagerlyConnect]
    IN  /\ port \in tabPorts
        /\ joinChannel' = jc
        /\ outbox' = <<>>
        /\ IF jc.endpoint # payload.endpoint
           THEN /\ thrown' = "Cannot use different chat endpoints for the same domain"
                /\ UNCHANGED <<ws, socks>>
           ELSE IF ws = 0 /\ jc.eagerlyConnect
           THEN triggerWsConnection(jc, socks)
           ELSE /\ thrown' = None
                /\ UNCHANGED <<ws, socks>>
        /\ UNCHANGED <<tabPorts, online, messageHistory, appended, outgoingQueue,
                       connectedTimestampMs, now, timers, wire, sendLog, received, wsAccepts, retried, db, view, electionVars>>

WsIsOpen == ws # 0 /\ socks[ws].readyState = "OPEN"

Logged(envelope) == [envelope |-> envelope, whileOpen |-> WsIsOpen]

\* a faulty tail that only enqueues while the socket is open, leaving the
\* flush to the next open
enqueueOnly(q) ==
    IF ws # 0
    THEN /\ outgoingQueue' = q
         /\ thrown' = None
         /\ UNCHANGED <<ws, socks, wire>>
    ELSE IF online
    THEN /\ outgoingQueue' = q
         /\ triggerWsConnection(joinChannel, socks)
         /\ UNCHANGED wire
    ELSE /\ outgoingQueue' = q
         /\ thrown' = None
         /\ UNCHANGED <<ws, socks, wire>>

\* the tail of onPlaintextMessage and of onFileMessage: flush or connect
flushOrConnect(q) ==
    IF ws # 0
    THEN IF socks[ws].readyState = "OPEN"
         THEN LET r == flushQueue(q, ws, socks, wire, 0)
              IN  /\ outgoingQueue' = r.queue
                  /\ wire' = r.wire
                  /\ thrown' = r.thrown
                  /\ UNCHANGED <<ws, socks>>
         ELSE /\ outgoingQueue' = q
              /\ thrown' = None
              /\ UNCHANGED <<ws, socks, wire>>
    ELSE IF online
    THEN /\ outgoingQueue' = q
         /\ triggerWsConnection(joinChannel, socks)
         /\ UNCHANGED wire
    ELSE /\ outgoingQueue' = q
         /\ thrown' = None
         /\ UNCHANGED <<ws, socks, wire>>

\* a faulty handler that records the message as sent as soon as it is handled
onPlaintextMessageSent(payload, tabPort) ==
    /\ tabPort \in tabPorts
    /\ messageHistory' = Append(messageHistory, [payload EXCEPT !.status = "sent"])
    /\ appended' = Append(appended, payload)
    /\ outbox' = broadcast(payload, {tabPort})
    /\ sendLog' = Append(sendLog, Logged(payload))
    /\ flushOrConnect(Append(outgoingQueue, payload))
    /\ UNCHANGED <<tabPorts, joinChannel, online, connectedTimestampMs, now, timers,
                   received, wsAccepts, retried, db, view, electionVars>>

onPlaintextMessage(payload, tabPort) ==
    /\ tabPort \in tabPorts
    /\ messageHistory' = Append(messageHistory, payload)
    /\ appended' = Append(appended, payload)
    /\ outbox' = broadcast(payload, {tabPort})
    /\ sendLog' = Append(sendLog, Logged(payload))
    /\ flushOrConnect(Append(outgoingQueue, payload))
    /\ UNCHANGED <<tabPorts, joinChannel, online, connectedTimestampMs, now, timers,
                   received, wsAccepts, retried, db, view, electionVars>>

onFileMessage(payload, tabPort) ==
    /\ tabPort \in tabPorts
    /\ messageHistory' = Append(messageHistory, payload)
    /\ appended' = Append(appended, payload)
    /\ outbox' = broadcast(payload, {tabPort})
    /\ sendLog' = Append(sendLog, Logged(Upload(payload)))
    /\ flushOrConnect(Append(outgoingQueue, Upload(payload)))
    /\ UNCHANGED <<tabPorts, joinChannel, online, connectedTimestampMs, now, timers,
                   received, wsAccepts, retried, db, view, electionVars>>

\* a faulty detach that closes the socket whenever a port leaves
onTabDisconnectedAny(port) ==
    /\ port \in tabPorts
    /\ tabPorts' = tabPorts \ {port}
    /\ socks' = IF ws # 0
                THEN Close(socks, ws, <<WS_CLOSE_REASON_GONE_AWAY, "all active tabs closed">>)
                ELSE socks
    /\ outbox' = <<>>
    /\ thrown' = None
    /\ UNCHANGED <<joinChannel, ws, online, messageHistory, appended, outgoingQueue,
                   connectedTimestampMs, now, timers, wire, sendLog, received, wsAccepts, retried, db, view, electionVars>>

onTabDisconnected(port) ==
    /\ port \in tabPorts
    /\ tabPorts' = tabPorts \ {port}
    /\ socks' = IF tabPorts' = {} /\ ws # 0
                THEN Close(socks, ws, <<WS_CLOSE_REASON_GONE_AWAY, "all active tabs closed">>)
                ELSE socks
    /\ outbox' = <<>>
    /\ thrown' = None
    /\ UNCHANGED <<joinChannel, ws, online, messageHistory, appended, outgoingQueue,
                   connectedTimestampMs, now, timers, wire, sendLog, received, wsAccepts, retried, db, view, electionVars>>

\* the switch of onTabMessage; it has no default: a message of any other type
\* is ignored
onTabMessage(tabPort, payload) ==
    CASE payload.type = "JOIN" -> onJoinChannel(tabPort, payload)
      [] payload.type = "PLAINTEXT" -> onPlaintextMessage(payload, tabPort)
      [] payload.type = "FILE" -> onFileMessage(payload, tabPort)
      [] payload.type = "DISCONNECTED" -> onTabDisconnected(tabPort)
      [] OTHER -> /\ tabPort \in tabPorts
                  /\ outbox' = <<>>
                  /\ thrown' = None
                  /\ UNCHANGED <<tabPorts, joinChannel, ws, socks, online, messageHistory,
                                 appended, outgoingQueue, connectedTimestampMs, now, timers,
                                 wire, sendLog, received, wsAccepts, retried, db, view, electionVars>>

\* What the tabs post.  The endpoints are interchangeable: the first Join names
\* the first of them.
JoinPayloads ==
    {[type |-> "JOIN", endpoint |-> endpoint, eagerlyConnect |-> eagerlyConnect] :
        endpoint \in IF joinChannel = Null THEN {"wss://a/?c=1"} ELSE Endpoints,
        eagerlyConnect \in BOOLEAN}

SentIds == {sendLog[i].envelope.messageId : i \in 1 .. Len(sendLog)}

\* a new message carries a fresh client-generated id
NewPayloads ==
    {ContentMsg(type, LocalId(Cardinality(SentIds) + 1), FALSE) : type \in {"PLAINTEXT", "FILE"}}

\* an edited message carries the id of a message a tab sent before
EditedPayloads ==
    {ContentMsg("PLAINTEXT", messageHistory[i].messageId, TRUE) :
        i \in {k \in 1 .. Len(messageHistory) :
                 /\ ~IsFrame(messageHistory[k])
                 /\ messageHistory[k].type = "PLAINTEXT"}}

\* --------------------------------------------------------- network status
onOnline ==
    /\ ~online
    /\ online' = TRUE
    /\ outbox' = <<>>
    /\ IF tabPorts = {}
       THEN /\ thrown' = None
            /\ UNCHANGED <<ws, socks>>
       ELSE IF Len(outgoingQueue) > 0
       THEN triggerWsConnection(joinChannel, socks)
       ELSE IF joinChannel # Null /\ joinChannel.eagerlyConnect
       THEN triggerWsConnection(joinChannel, socks)
       ELSE /\ thrown' = None
            /\ UNCHANGED <<ws, socks>>
    /\ UNCHANGED <<tabPorts, joinChannel, messageHistory, appended, outgoingQueue,
                   connectedTimestampMs, now, timers, wire, sendLog, received, wsAccepts, retried, db, view, electionVars>>

\* ws?.readyState === ws?.OPEN holds for a null ws too (undefined === undefined);
\* ws?.close() is then a no-op
onOffline ==
    /\ online
    /\ online' = FALSE
    /\ socks' = IF ws # 0 /\ socks[ws].readyState = "OPEN"
                THEN Close(socks, ws, <<>>)
                ELSE socks
    /\ ws' = 0
    /\ outbox' = <<>>
    /\ thrown' = None
    /\ UNCHANGED <<tabPorts, joinChannel, messageHistory, appended, outgoingQueue,
                   connectedTimestampMs, now, timers, wire, sendLog, received, wsAccepts, retried, db, view, electionVars>>

\* ------------------------------------------------------- websocket events
\* the open event of socket s: any socket that is still CONNECTING, whether or
\* not the variable ws still refers to it
onWsOpen(s) ==
    LET sk == [socks EXCEPT ![s].readyState = "OPEN"]
        j == IF joinChannel = Null
             THEN [wire |-> wire, thrown |-> "no pending joinChannel message"]
             ELSE send(joinChannel, ws, sk, wire, 0)
        f == IF j.thrown # None
             THEN [queue |-> outgoingQueue, wire |-> j.wire, thrown |-> j.thrown]
             ELSE flushQueue(outgoingQueue, ws, sk, j.wire, 1)
    IN  /\ socks[s].readyState = "CONNECTING"
        /\ socks' = sk
        /\ connectedTimestampMs' = now
        /\ outgoingQueue' = f.queue
        /\ wire' = f.wire
        /\ thrown' = f.thrown
        /\ outbox' = IF f.thrown = None THEN broadcast([type |-> "ONLINE"], {}) ELSE <<>>
        /\ UNCHANGED <<tabPorts, joinChannel, ws, online, messageHistory, now, timers,
                       sendLog, received, appended, wsAccepts, retried, db, view, electionVars>>

\* a faulty close handler that reconnects whether or not a port is attached
onWsCloseAlways(s) ==
    LET sk == [socks EXCEPT ![s].readyState = "CLOSED"]
        sessionDurationMs == IF connectedTimestampMs # 0
                             THEN now - connectedTimestampMs
                             ELSE 0
        timeToReconnect == MIN_RECONNECTION_INTERVAL_MS - sessionDurationMs
    IN  /\ socks[s].readyState # "CLOSED"
        /\ outbox' = broadcast([type |-> "OFFLINE", sessionDurationMs |-> sessionDurationMs], {})
        /\ IF ~online
           THEN /\ ws' = 0
                /\ socks' = sk
                /\ thrown' = None
                /\ UNCHANGED timers
           ELSE IF timeToReconnect > 0
           THEN /\ timers' = Append(timers, [due |-> now + timeToReconnect,
                                           sockets |-> Len(socks)])
                /\ socks' = sk
                /\ thrown' = None
                /\ UNCHANGED ws
           ELSE /\ triggerWsConnection(joinChannel, sk)
                /\ UNCHANGED timers
        /\ UNCHANGED <<tabPorts, joinChannel, online, messageHistory, appended, outgoingQueue,
                       connectedTimestampMs, now, wire, sendLog, received, wsAccepts, retried,
                       db, view, electionVars>>

\* the close event of socket s: the connection failed, the peer or the network
\* closed it, or the closing handshake ended
onWsClose(s) ==
    LET sk == [socks EXCEPT ![s].readyState = "CLOSED"]
        sessionDurationMs == IF connectedTimestampMs # 0
                             THEN now - connectedTimestampMs
                             ELSE 0
        timeToReconnect == MIN_RECONNECTION_INTERVAL_MS - sessionDurationMs
    IN  /\ socks[s].readyState # "CLOSED"
        /\ outbox' = broadcast([type |-> "OFFLINE", sessionDurationMs |-> sessionDurationMs], {})
        /\ IF ~online \/ tabPorts = {}
           THEN /\ ws' = 0
                /\ socks' = sk
                /\ thrown' = None
                /\ UNCHANGED timers
           ELSE IF timeToReconnect > 0
           THEN /\ timers' = Append(timers, [due |-> now + timeToReconnect,
                                           sockets |-> Len(socks)])
                /\ socks' = sk
                /\ thrown' = None
                /\ UNCHANGED ws
           ELSE /\ triggerWsConnection(joinChannel, sk)
                /\ UNCHANGED timers
        /\ retried' = IF online /\ tabPorts # {} /\ timeToReconnect <= 0 /\ joinChannel # Null
                      THEN retried \cup {[socket |-> Len(socks) + 1, at |-> now]}
                      ELSE retried
        /\ UNCHANGED <<tabPorts, joinChannel, online, messageHistory, appended, outgoingQueue,
                       connectedTimestampMs, now, wire, sendLog, received, wsAccepts, db, view, electionVars>>

onWsError(s) ==
    /\ socks[s].readyState # "CLOSED"
    /\ outbox' = <<>>
    /\ thrown' = None
    /\ UNCHANGED <<tabPorts, joinChannel, ws, socks, online, messageHistory, appended, outgoingQueue,
                   connectedTimestampMs, now, timers, wire, sendLog, received, wsAccepts, retried, db, view, electionVars>>

\* a timer set by onWsClose comes due: setTimeout(triggerWsConnection, ...)
\* is never cleared, and its callback tests nothing
TimerFires(i) ==
    /\ timers[i].due <= now
    /\ timers' = SubSeq(timers, 1, i - 1) \o SubSeq(timers, i + 1, Len(timers))
    /\ triggerWsConnection(joinChannel, socks)
    /\ outbox' = <<>>
    /\ UNCHANGED <<tabPorts, joinChannel, online, messageHistory, appended, outgoingQueue,
                   connectedTimestampMs, now, wire, sendLog, received, wsAccepts, retried, db, view, electionVars>>

\* the clock advances between two events
Tock(step) ==
    /\ now' = now + step
    /\ UNCHANGED <<tabPorts, joinChannel, ws, socks, online, messageHistory, outgoingQueue,
                   connectedTimestampMs, timers, wire, outbox, thrown,
                   sendLog, received, appended, wsAccepts, retried, db, view, electionVars>>

\* ------------------------------------------------------- backend frames
onWsPlaintextMessage(payload) ==
    /\ messageHistory' = Append(messageHistory, payload)
    /\ appended' = Append(appended, payload)
    /\ outbox' = broadcast(payload, {})
    /\ thrown' = None

\* downloadUrl rejects ('Not implemented'): the async function ends at its
\* await, and nothing is pushed or broadcast
onWsFileMessage(payload) ==
    /\ outbox' = <<>>
    /\ thrown' = None
    /\ UNCHANGED <<messageHistory, appended>>

\* findLast by messageId, then the two assignments.  An entry that is an
\* encoded frame is a primitive: assigning a property to it is ignored, or is a
\* TypeError in strict mode.
onMessageAck(payload) ==
    LET id == Prop(payload, "messageId")
        found == {i \in 1 .. Len(messageHistory) : Prop(messageHistory[i], "messageId") = id}
        last == CHOOSE i \in found : \A k \in found : k <= i
    IN  IF found = {}
        THEN /\ outbox' = broadcast(payload, {})
             /\ thrown' = None
             /\ UNCHANGED <<messageHistory, appended>>
        ELSE IF IsFrame(messageHistory[last])
        THEN \/ /\ outbox' = broadcast(payload, {})
                /\ thrown' = None
                /\ UNCHANGED <<messageHistory, appended>>
             \/ /\ outbox' = <<>>
                /\ thrown' = "TypeError"
                /\ UNCHANGED <<messageHistory, appended>>
        ELSE /\ messageHistory' =
                    [messageHistory EXCEPT
                        ![last].messageId = Prop(payload, "destiationMessageId"),
                        ![last].status = "delivered"]
             /\ outbox' = broadcast(payload, {})
             /\ UNCHANGED appended
             /\ thrown' = None

onErrorResponse(payload) ==
    /\ outbox' = <<>>
    /\ thrown' = None
    /\ UNCHANGED <<messageHistory, appended>>

\* the frames the backend sends
BackendFrames ==
    {encodeKiteMsg(ContentMsg("PLAINTEXT", CanonicalId(received + 1), FALSE)),
     encodeKiteMsg([type |-> "BIN", messageId |-> CanonicalId(received + 1)]),
     encodeKiteMsg([type |-> "ERROR", code |-> 500, reason |-> "error"])}
    \cup {encodeKiteMsg(MsgAck(id, CanonicalId(received + 1))) : id \in SentIds \cup {LocalId(0)}}

\* the id a history entry is known by: an entry pushed as a received frame is
\* the message the frame encodes
EntryId(entry) == IF IsFrame(entry) THEN decodeKiteMsg(entry).messageId ELSE entry.messageId

EntryStatus(entry) == IF IsFrame(entry) THEN decodeKiteMsg(entry).status ELSE entry.status

HistoryIds(history) == {EntryId(history[i]) : i \in 1 .. Len(history)}

\* a frame that reports file messages zippedIds archived into message id
ZippedMsg(id, zippedIds) == [type |-> "ZIPPED", messageId |-> id, zippedIds |-> zippedIds]

FileIds(history) ==
    {EntryId(history[i]) : i \in {k \in 1 .. Len(history) : ~IsFrame(history[k])
                                                             /\ history[k].type = "FILE"}}

ZippedFrames ==
    {encodeKiteMsg(ZippedMsg(CanonicalId(received + 1), zippedIds)) :
        zippedIds \in SUBSET FileIds(messageHistory) \ {{}}}

\* data that is not the encoding of any message
MalformedFrames == {[garbled |-> TRUE]}

\* the message event of socket s; the handlers are handed event.data, the
\* frame as received, not the decoded kiteMsg.  The switch has no default, and
\* decodeKiteMsg is not guarded: on data it cannot decode it throws, or returns
\* a value of no known type.
onWsMessage(s, data) ==
    LET payload == data
    IN  /\ socks[s].readyState = "OPEN"
        /\ received' = received + 1
        /\ IF ~IsFrame(payload)
           THEN /\ outbox' = <<>>
                /\ thrown' \in {"Cannot decode", None}
                /\ UNCHANGED <<messageHistory, appended>>
           ELSE LET kiteMsg == decodeKiteMsg(payload)
                IN  CASE kiteMsg.type = "PLAINTEXT" -> onWsPlaintextMessage(payload)
                      [] kiteMsg.type = "BIN" -> onWsFileMessage(payload)
                      [] kiteMsg.type = "ACK" -> onMessageAck(payload)
                      [] kiteMsg.type = "ERROR" -> onErrorResponse(payload)
                      [] OTHER -> /\ outbox' = <<>>
                                  /\ thrown' = None
                                  /\ UNCHANGED <<messageHistory, appended>>
        /\ UNCHANGED <<tabPorts, joinChannel, ws, socks, online, outgoingQueue,
                       connectedTimestampMs, now, timers, wire, sendLog, wsAccepts, retried, db, view, electionVars>>

\* ------------------------------------------------------------- KiteChat
\* The KiteChat client of a tab: its chat element (view) and the store (db)
\* that the tabs of one origin share.  A message is its id and its file
\* ("none" for a text message, "file", or "zip" for an archive).
ChatMsg(id, file) == [messageId |-> id, file |-> file]

Stored(store, id) == {i \in 1 .. Len(store) : store[i].messageId = id}

\* kite-storage: a store keyed by messageId
addMessage(msg, store) == IF Stored(store, msg.messageId) # {} THEN store ELSE Append(store, msg)

modifyMessage(id, msg, store) ==
    [i \in 1 .. Len(store) |-> IF store[i].messageId = id THEN msg ELSE store[i]]

deleteMessage(id, store) == SelectSeq(store, LAMBDA m : m.messageId # id)

\* the stored messages that follow the one with id lastElement, all of them
\* when there is none
getMessages(store, lastElement) ==
    IF Stored(store, lastElement) = {}
    THEN store
    ELSE SubSeq(store, (CHOOSE i \in Stored(store, lastElement) : TRUE) + 1, Len(store))

\* KiteChatElement
appendMsg(elements, msg) == Append(elements, msg)

editMsg(elements, id, file) ==
    [i \in 1 .. Len(elements) |->
        IF elements[i].messageId = id THEN [elements[i] EXCEPT !.file = file] ELSE elements[i]]

\* document.querySelector(...)?.remove(): the first element of that id, if any
removeMsg(elements, id) ==
    LET at == Stored(elements, id)
        first == CHOOSE i \in at : \A k \in at : i <= k
    IN  IF at = {} THEN elements
        ELSE SubSeq(elements, 1, first - 1) \o SubSeq(elements, first + 1, Len(elements))

\* KiteChat.update(messageId, {file}): the element is edited; the stored
\* message is modified when there is one, and nothing is stored otherwise
update(messageId, file, elements, store) ==
    [view |-> editMsg(elements, messageId, file),
     db |-> IF Stored(store, messageId) = {}
            THEN store
            ELSE modifyMessage(messageId,
                               ChatMsg(messageId, file), store)]

\* KiteChat.delete(messageId), in the document of the tab and in the store
delete(messageId, elements, store) ==
    [view |-> removeMsg(elements, messageId), db |-> deleteMessage(messageId, store)]

RECURSIVE deleteEach(_, _, _)
deleteEach(ids, elements, store) ==
    IF ids = <<>> THEN [view |-> elements, db |-> store]
    ELSE LET r == delete(ids[1], elements, store)
         IN  deleteEach(Tail(ids), r.view, r.db)

\* kite-chat.send of the tab's element: the element appends the message and
\* KiteChat.onOutgoingMessage stores it
onOutgoingMessage(tab, outgoing) ==
    /\ view' = [view EXCEPT ![tab] = appendMsg(view[tab], outgoing)]
    /\ db' = addMessage(outgoing, db)
    /\ UNCHANGED <<workerVars, electionVars>>

\* KiteChat.onContentMessage(incoming), in the tab that holds the connection
onContentMessage(tab, incoming) ==
    /\ view' = [view EXCEPT ![tab] = appendMsg(view[tab], incoming)]
    /\ db' = addMessage(incoming, db)
    /\ UNCHANGED <<workerVars, electionVars>>

\* KiteChat.restore(), when the tab is constructed or becomes visible
restore(tab) ==
    LET lastElement == IF view[tab] = <<>> THEN Undefined
                       ELSE view[tab][Len(view[tab])].messageId
    IN  /\ view' = [view EXCEPT ![tab] = view[tab] \o getMessages(db, lastElement)]
        /\ UNCHANGED <<db, workerVars, electionVars>>

\* kite-chat.delete of the tab's element
onDeleteMessage(tab, detail) ==
    LET r == delete(detail.messageId, view[tab], db)
    IN  /\ view' = [view EXCEPT ![tab] = r.view]
        /\ db' = r.db
        /\ UNCHANGED <<workerVars, electionVars>>

\* KiteChat.onZippedMessage(messageId, zippedIds, file), in the tab that holds
\* the connection
onZippedMessage(tab, messageId, zippedIds) ==
    LET u == update(messageId, "zip", view[tab], db)
        r == deleteEach(zippedIds, u.view, u.db)
    IN  /\ view' = [view EXCEPT ![tab] = r.view]
        /\ db' = r.db
        /\ UNCHANGED <<workerVars, electionVars>>

\* ------------------------------------------------- KiteChat tab election
\* kiteChannel.postMessage(msg): a task on every other open channel of the name
postMessage(tab, msg, open) ==
    [r \in Tabs |-> IF r \in open \ {tab} THEN Append(kiteChannel[r], msg) ELSE kiteChannel[r]]

\* KiteChat.initClient(): setTimeout returns a fresh id, which overwrites
\* connectionTimeout; the timeout set before is not cleared
initClient(tab, open) ==
    /\ kiteChannel' = postMessage(tab, [type |-> "JOIN"], open)
    /\ connectionTimeout' = [connectionTimeout EXCEPT ![tab] = connectionTimeout[tab] + 1]
    /\ timeouts' = [timeouts EXCEPT ![tab] = Append(timeouts[tab], connectionTimeout[tab] + 1)]

\* new KiteChat(opts): opens the channel and calls initClient()
KiteChatConstructor(tab) ==
    /\ tab \notin constructed
    /\ \A other \in Tabs \ constructed : tab <= other
    /\ constructed' = constructed \cup {tab}
    /\ initClient(tab, constructed \cup {tab})
    /\ UNCHANGED <<kiteWebsocket, connects, workerVars, storeVars>>

\* the visibilitychange listener, when the document becomes visible
onVisibilityChange(tab) ==
    /\ tab \in constructed
    /\ initClient(tab, constructed)
    /\ UNCHANGED <<constructed, kiteWebsocket, connects, workerVars, storeVars>>

\* the callback of the timeout of initClient.  setTimeout gives a least
\* delay only (a hidden tab throttles its timers), so a timeout fires at any
\* time after it was set; the timeouts of one tab have the same delay and
\* fire in the order they were set
onConnectionTimeout(tab) ==
    /\ timeouts[tab] # <<>>
    /\ timeouts' = [timeouts EXCEPT ![tab] = Tail(timeouts[tab])]
    /\ kiteChannel' = postMessage(tab, [type |-> "CONNECTED"], constructed)
    /\ connects' = [connects EXCEPT ![tab] = connects[tab] + 1]
    /\ UNCHANGED <<constructed, kiteWebsocket, connectionTimeout, workerVars, storeVars>>

\* the zero-delay timeout: !this.kiteWebsocket && this.connect()
connect(tab) ==
    /\ connects[tab] > 0
    /\ connects' = [connects EXCEPT ![tab] = connects[tab] - 1]
    /\ kiteWebsocket' = [kiteWebsocket EXCEPT ![tab] = TRUE]
    /\ UNCHANGED <<constructed, kiteChannel, connectionTimeout, timeouts, workerVars, storeVars>>

\* KiteChat.disconnect()
disconnect(tab) == [kiteWebsocket EXCEPT ![tab] = FALSE]

\* clearTimeout(id): a no-op for a timeout that has fired or was cleared
clearTimeout(pending, id) == SelectSeq(pending, LAMBDA t : t # id)

\* KiteChat.onChannelMessage(e), for the oldest undelivered message
onChannelMessage(tab) ==
    /\ kiteChannel[tab] # <<>>
    /\ kiteChannel' = [kiteChannel EXCEPT ![tab] = Tail(kiteChannel[tab])]
    /\ CASE kiteChannel[tab][1].type = "CONNECTED" ->
                /\ kiteWebsocket' = disconnect(tab)
                /\ UNCHANGED timeouts
         [] kiteChannel[tab][1].type = "JOIN" ->
                /\ timeouts' = IF connectionTimeout[tab] # 0
                               THEN [timeouts EXCEPT
                                        ![tab] = clearTimeout(timeouts[tab], connectionTimeout[tab])]
                               ELSE timeouts
                /\ UNCHANGED kiteWebsocket
         [] OTHER -> UNCHANGED <<kiteWebsocket, timeouts>>
    /\ UNCHANGED <<constructed, connectionTimeout, connects, workerVars, storeVars>>

\* -------------------------------------------------------------------- Next
\* a scope b bounds the part of the state space explored; a handler runs whole
\* or not at all
Tick(b) == MIN_RECONNECTION_INTERVAL_MS \div b.perInterval

Within(b) ==
    /\ Cardinality(tabPorts) <= b.tabs
    /\ Len(sendLog) <= b.sends
    /\ received <= b.frames
    /\ Len(socks) <= b.sockets
    /\ Len(timers) <= b.timers
    /\ now <= StartTime + b.ticks * Tick(b)

ClientEvents(b) ==
    \/ \E port \in Ports : onTabConnected(port) /\ Within(b)'
    \/ \E port \in tabPorts, payload \in JoinPayloads :
           onTabMessage(port, payload) /\ Within(b)'
    \/ \E port \in tabPorts : onTabMessage(port, [type |-> "DISCONNECTED"]) /\ Within(b)'

SendEvents(b) ==
    \E port \in tabPorts, payload \in NewPayloads : onTabMessage(port, payload) /\ Within(b)'

EditEvents(b) ==
    \E port \in tabPorts, payload \in EditedPayloads : onTabMessage(port, payload) /\ Within(b)'

NetworkEvents(b) ==
    \/ onOnline /\ Within(b)'
    \/ onOffline /\ Within(b)'

SocketEvents(b) ==
    \/ \E s \in 1 .. Len(socks) : onWsOpen(s) /\ Within(b)'
    \/ \E s \in 1 .. Len(socks) : onWsClose(s) /\ Within(b)'

FrameEvents(b) ==
    \/ \E s \in 1 .. Len(socks), data \in BackendFrames : onWsMessage(s, data) /\ Within(b)'
    \/ \E s \in 1 .. Len(socks) : onWsError(s) /\ Within(b)'

TimerEvents(b) ==
    \/ \E i \in 1 .. Len(timers) : TimerFires(i) /\ Within(b)'
    \/ Tock(Tick(b)) /\ Within(b)'

QueueScope ==
    [tabs |-> QueueTabs, sends |-> QueueSends, frames |-> 0, sockets |-> QueueSockets,
     timers |-> QueueTimers, ticks |-> QueueTicks, perInterval |-> QueueTicksPerInterval]

NextQueue ==
    \/ ClientEvents(QueueScope)
    \/ SendEvents(QueueScope)
    \/ EditEvents(QueueScope)
    \/ NetworkEvents(QueueScope)
    \/ SocketEvents(QueueScope)
    \/ TimerEvents(QueueScope)

SpecQueue == Init /\ [][NextQueue]_vars

HistoryScope ==
    [tabs |-> HistoryTabs, sends |-> HistorySends, frames |-> HistoryFrames,
     sockets |-> HistorySockets, timers |-> 0, ticks |-> 0, perInterval |-> 1]

NextHistory ==
    \/ ClientEvents(HistoryScope)
    \/ SendEvents(HistoryScope)
    \/ EditEvents(HistoryScope)
    \/ SocketEvents(HistoryScope)
    \/ FrameEvents(HistoryScope)

SpecHistory == Init /\ [][NextHistory]_vars

ReconnectScope ==
    [tabs |-> ReconnectTabs, sends |-> ReconnectSends, frames |-> 0,
     sockets |-> ReconnectSockets, timers |-> ReconnectTimers, ticks |-> ReconnectTicks,
     perInterval |-> ReconnectTicksPerInterval]

NextReconnect ==
    \/ ClientEvents(ReconnectScope)
    \/ SendEvents(ReconnectScope)
    \/ NetworkEvents(ReconnectScope)
    \/ SocketEvents(ReconnectScope)
    \/ TimerEvents(ReconnectScope)

SpecReconnect == Init /\ [][NextReconnect]_vars

ThrottleScope ==
    [tabs |-> ThrottleTabs, sends |-> 0, frames |-> 0,
     sockets |-> ThrottleSockets, timers |-> ThrottleTimers, ticks |-> ThrottleTicks,
     perInterval |-> ThrottleTicksPerInterval]

NextThrottle ==
    \/ ClientEvents(ThrottleScope)
    \/ NetworkEvents(ThrottleScope)
    \/ SocketEvents(ThrottleScope)
    \/ TimerEvents(ThrottleScope)

SpecThrottle == Init /\ [][NextThrottle]_vars

\* what else reaches the worker: frames and tab messages of a type the
\* switches do not name, and data that cannot be decoded
DeletePayloads ==
    {[type |-> "DELETE", messageId |-> id] : id \in HistoryIds(messageHistory)}

UnhandledEvents(b) ==
    \/ \E s \in 1 .. Len(socks), data \in ZippedFrames : onWsMessage(s, data) /\ Within(b)'
    \/ \E s \in 1 .. Len(socks), data \in MalformedFrames : onWsMessage(s, data) /\ Within(b)'
    \/ \E port \in tabPorts, payload \in DeletePayloads :
           onTabMessage(port, payload) /\ Within(b)'

InboundScope ==
    [tabs |-> InboundTabs, sends |-> InboundSends, frames |-> InboundFrames,
     sockets |-> InboundSockets, timers |-> 0, ticks |-> 0, perInterval |-> 1]

NextInbound ==
    \/ ClientEvents(InboundScope)
    \/ SendEvents(InboundScope)
    \/ SocketEvents(InboundScope)
    \/ FrameEvents(InboundScope)
    \/ UnhandledEvents(InboundScope)

SpecInbound == Init /\ [][NextInbound]_vars

\* sends, frames, sockets and the network status together
StatusScope ==
    [tabs |-> StatusTabs, sends |-> StatusSends, frames |-> StatusFrames,
     sockets |-> StatusSockets, timers |-> StatusTimers, ticks |-> 0, perInterval |-> 1]

NextStatus ==
    \/ ClientEvents(StatusScope)
    \/ SendEvents(StatusScope)
    \/ EditEvents(StatusScope)
    \/ NetworkEvents(StatusScope)
    \/ SocketEvents(StatusScope)
    \/ FrameEvents(StatusScope)

SpecStatus == Init /\ [][NextStatus]_vars

\* The worker under its scheduling: a connection attempt opens unless it
\* closes first, a closing handshake ends, time passes while a timer is
\* pending, and the event loop runs the callback of a timer that is due.
LiveScope ==
    [tabs |-> LiveTabs, sends |-> LiveSends, frames |-> 0, sockets |-> LiveSockets,
     timers |-> LiveTimers, ticks |-> LiveTicks, perInterval |-> LiveTicksPerInterval]

NextLive ==
    \/ ClientEvents(LiveScope)
    \/ SendEvents(LiveScope)
    \/ NetworkEvents(LiveScope)
    \/ SocketEvents(LiveScope)
    \/ TimerEvents(LiveScope)

SpecLive ==
    /\ Init
    /\ [][NextLive]_vars
    /\ \A s \in 1 .. LiveSockets :
           /\ WF_vars(s <= Len(socks) /\ onWsOpen(s) /\ Within(LiveScope)')
           /\ WF_vars(/\ s <= Len(socks)
                      /\ socks[s].readyState = "CLOSING"
                      /\ onWsClose(s)
                      /\ Within(LiveScope)')
    /\ \A i \in 1 .. LiveTimers :
           WF_vars(i <= Len(timers) /\ TimerFires(i) /\ Within(LiveScope)')
    /\ WF_vars(/\ \E i \in 1 .. Len(timers) : timers[i].due > now
               /\ Tock(Tick(LiveScope))
               /\ Within(LiveScope)')

\* the scope leaves no room for a reconnection: every socket of the scope has
\* been constructed or its clock has run out
LiveScopeUsedUp ==
    \/ Len(socks) = LiveScope.sockets
    \/ now = StartTime + LiveScope.ticks * Tick(LiveScope)

\* the KiteChat clients of the tabs, over a store of at most StoreMessages
\* messages and chat elements of at most ViewElements messages
ViewIds == UNION {{view[tab][i].messageId : i \in 1 .. Len(view[tab])} : tab \in Ports}

StoreIds == {db[i].messageId : i \in 1 .. Len(db)}

\* a message of the tab's user carries a fresh id (randomStringId)
OutgoingMsgs ==
    LET unused == {n \in 1 .. StoreMessages : LocalId(n) \notin ViewIds \cup StoreIds}
    IN  {ChatMsg(LocalId(n), file) :
            n \in {k \in unused : \A j \in unused : k <= j}, file \in {"none", "file"}}

IncomingMsgs == {ChatMsg(CanonicalId(1), "file")} \ {db[i] : i \in 1 .. Len(db)}

\* the file messages the backend may report as archived, in id order
ZippedIds ==
    LET files == {n \in 1 .. StoreMessages : ChatMsg(LocalId(n), "file") \in {db[i] : i \in 1 .. Len(db)}}
    IN  {[i \in 1 .. Len(SetToSeq(N)) |-> LocalId(SetToSeq(N)[i])] : N \in SUBSET files \ {{}}}

WithinClient ==
    /\ Len(db) <= StoreMessages
    /\ \A tab \in Ports : Len(view[tab]) <= ViewElements

NextClient ==
    \/ \E tab \in Ports, outgoing \in OutgoingMsgs :
           onOutgoingMessage(tab, outgoing) /\ WithinClient'
    \/ \E tab \in Ports, incoming \in IncomingMsgs :
           onContentMessage(tab, incoming) /\ WithinClient'
    \/ \E tab \in Ports : restore(tab) /\ WithinClient'
    \/ \E tab \in Ports : \E i \in 1 .. Len(view[tab]) :
           onDeleteMessage(tab, [messageId |-> view[tab][i].messageId]) /\ WithinClient'
    \/ \E tab \in Ports, zippedIds \in ZippedIds :
           onZippedMessage(tab, CanonicalId(1), zippedIds) /\ WithinClient'

SpecClient == Init /\ [][NextClient]_vars

\* the tab election of the KiteChat clients: a scope bounds the number of
\* tabs and the number of times each calls initClient
WithinElection(b) ==
    /\ Cardinality(constructed) <= b.tabs
    /\ \A tab \in Tabs : connectionTimeout[tab] <= b.inits

InitEvents(b) ==
    \/ \E tab \in Tabs : KiteChatConstructor(tab) /\ WithinElection(b)'
    \/ \E tab \in Tabs : onVisibilityChange(tab) /\ WithinElection(b)'

TaskEvents ==
    \/ \E tab \in Tabs : connect(tab)
    \/ \E tab \in Tabs : onChannelMessage(tab)

ElectionScope == [tabs |-> ElectionTabs, inits |-> ElectionInits]

\* a timeout fires at any time after it was set
NextElection ==
    \/ InitEvents(ElectionScope)
    \/ TaskEvents
    \/ \E tab \in Tabs : onConnectionTimeout(tab)

SpecElection == Init /\ [][NextElection]_vars

\* Tabs that run their tasks promptly: a channel message is delivered and a
\* zero-delay timeout runs before the next timeout of initClient fires, in
\* whatever tab.  The event loop of a tab runs every task queued for it.
PromptScope == [tabs |-> PromptTabs, inits |-> PromptInits]

NoTaskQueued == \A tab \in Tabs : kiteChannel[tab] = <<>> /\ connects[tab] = 0

NextPrompt ==
    \/ InitEvents(PromptScope)
    \/ TaskEvents
    \/ \E tab \in Tabs : NoTaskQueued /\ onConnectionTimeout(tab)

SpecPrompt ==
    /\ Init
    /\ [][NextPrompt]_vars
    /\ \A tab \in Tabs :
           /\ WF_vars(NoTaskQueued /\ onConnectionTimeout(tab))
           /\ WF_vars(connect(tab))
           /\ WF_vars(onChannelMessage(tab))

\* no channel message is undelivered and no timeout is pending
Quiescent ==
    \A tab \in Tabs : kiteChannel[tab] = <<>> /\ timeouts[tab] = <<>> /\ connects[tab] = 0

Connected == {tab \in Tabs : kiteWebsocket[tab]}

\* ------------------------------------------------- flushQueue on its own
\* flushQueue against a transport that stops reporting OPEN after wsAccepts
\* sends: the queue holds any envelopes, the socket is in any state
RECURSIVE Envelopes(_)
Envelopes(n) ==
    IF n = 0 THEN {<<>>}
    ELSE {Append(q, e) : q \in Envelopes(n - 1),
                         e \in {ContentMsg("PLAINTEXT", LocalId(n), FALSE),
                                Upload(ContentMsg("FILE", LocalId(n), FALSE))}}

InitFlush ==
    /\ tabPorts = {1}
    /\ joinChannel = [type |-> "JOIN", endpoint |-> "wss://a/?c=1", eagerlyConnect |-> FALSE]
    /\ ws \in {0, 1}
    /\ socks \in {<<[NewSocket EXCEPT !.readyState = r]>> :
                    r \in {"CONNECTING", "OPEN", "CLOSING", "CLOSED"}}
    /\ online = TRUE
    /\ messageHistory = <<>>
    /\ \E n \in 0 .. FlushQueueLen : outgoingQueue \in Envelopes(n)
    /\ connectedTimestampMs = 0
    /\ now = StartTime
    /\ timers = <<>>
    /\ wire = <<>>
    /\ outbox = <<>>
    /\ thrown = None
    /\ sendLog = [i \in 1 .. Len(outgoingQueue) |-> Logged(outgoingQueue[i])]
    /\ received = 0
    /\ appended = <<>>
    /\ wsAccepts \in 0 .. FlushQueueLen
    /\ retried = {}
    /\ db = <<>>
    /\ view = [tab \in Ports |-> <<>>]
    /\ constructed = {}
    /\ kiteWebsocket = [tab \in Tabs |-> FALSE]
    /\ kiteChannel = [tab \in Tabs |-> <<>>]
    /\ connectionTimeout = [tab \in Tabs |-> 0]
    /\ timeouts = [tab \in Tabs |-> <<>>]
    /\ connects = [tab \in Tabs |-> 0]

FlushCall ==
    LET r == flushQueue(outgoingQueue, ws, socks, wire, 0)
    IN  /\ wire = <<>>
        /\ thrown = None
        /\ outgoingQueue' = r.queue
        /\ wire' = r.wire
        /\ thrown' = r.thrown
        /\ UNCHANGED <<tabPorts, joinChannel, ws, socks, online, messageHistory, appended,
                       connectedTimestampMs, now, timers, outbox, sendLog, received,
                       wsAccepts, retried, db, view, electionVars>>

SpecFlush == InitFlush /\ [][FlushCall]_vars

\* ------------------------------------------------------------------ claims

\* C1: every envelope of a Send handled while the transport was OPEN is on the
\* wire, at the place of its Send in the order the Sends were handled: none is
\* reordered, skipped or written before an earlier one.
OpenSendsWrittenInOrder ==
    \A i \in 1 .. Len(sendLog) :
        sendLog[i].whileOpen =>
            /\ i <= Len(WireEnvelopes)
            /\ SubSeq(WireEnvelopes, 1, i) = SubSeq(SentEnvelopes, 1, i)

\* two Sends of different kinds handled one after the other on an open transport
OpenSendsWitness ==
    \E i \in 1 .. Len(sendLog) - 1 :
        /\ sendLog[i].whileOpen /\ sendLog[i + 1].whileOpen
        /\ sendLog[i].envelope.type # sendLog[i + 1].envelope.type
        /\ Len(WireEnvelopes) >= i + 1

\* C2: when flushQueue fails on envelope k, envelopes 1..k-1 are on the wire
\* and off the queue and the queue holds k..n in their order; it fails exactly
\* when the transport is missing or stops being OPEN before the queue is empty;
\* flushing an empty queue changes nothing.
FlushAccepted == IF ws # 0 /\ socks[ws].readyState = "OPEN" THEN wsAccepts ELSE 0

FlushStopsAtFirstFailure ==
    LET n == Len(sendLog)
        k == Len(WireEnvelopes) + 1
    IN  /\ thrown # None =>
            /\ k = FlushAccepted + 1
            /\ k <= n
            /\ WireEnvelopes = SubSeq(SentEnvelopes, 1, k - 1)
            /\ outgoingQueue = SubSeq(SentEnvelopes, k, n)
        /\ n = 0 => wire = <<>> /\ outgoingQueue = <<>> /\ thrown = None

\* a flush that failed on its third envelope
FlushFailureWitness ==
    /\ thrown # None
    /\ Len(WireEnvelopes) = 2
    /\ Len(outgoingQueue) >= 1

\* C3: over every interleaving the envelopes on the wire, followed by those
\* still queued, are the envelopes enqueued, in the order they were enqueued.
WireFollowsEnqueueOrder == WireEnvelopes \o outgoingQueue = SentEnvelopes

\* an envelope that waited in the queue while a connection closed has been
\* written on the next connection, followed by one enqueued after it
RequeuedWitness ==
    /\ Len(socks) = 2
    /\ socks[1].readyState = "CLOSED"
    /\ Len(WireEnvelopes) = 2
    /\ \A i \in 1 .. Len(wire) : decodeKiteMsg(wire[i].data).type # "JOIN" => wire[i].sock = 2
    /\ ~sendLog[1].whileOpen

AckFrames == {data \in BackendFrames : decodeKiteMsg(data).type = "ACK"}

\* C4: when an Ack mapping local id L to canonical id C is processed and
\* history held an entry with id L, then afterwards the entry at that position
\* has id C and status delivered, and no entry with id L remains.
AckRenamesEntry ==
    [][\A s \in 1 .. Len(socks), data \in AckFrames :
          LET L == decodeKiteMsg(data).messageId
              C == decodeKiteMsg(data).destiationMessageId
          IN  (onWsMessage(s, data) /\ L \in HistoryIds(messageHistory)) =>
                  /\ \A i \in 1 .. Len(messageHistory) :
                         EntryId(messageHistory[i]) = L =>
                             /\ EntryId(messageHistory'[i]) = C
                             /\ EntryStatus(messageHistory'[i]) = "delivered"
                  /\ L \notin HistoryIds(messageHistory')]_vars

\* C5: history holds at most one entry per message id.
OneEntryPerId ==
    \A i, j \in 1 .. Len(messageHistory) :
        EntryId(messageHistory[i]) = EntryId(messageHistory[j]) => i = j

IsConnected(post) == ~IsFrame(post.msg) /\ post.msg.type = "CONNECTED"

\* C6: the CONNECTED message a port is sent on attach carries every entry
\* pushed to the history so far, each once, in the order they were pushed.
ConnectedReplaysHistory ==
    \A k \in 1 .. Len(outbox) :
        IsConnected(outbox[k]) =>
            outbox[k].msg.messageHistory = appended

\* a second port attaches after client messages and a backend
\* message were pushed
ConnectedReplayWitness ==
    /\ Len(outbox) = 1
    /\ IsConnected(outbox[1])
    /\ outbox[1].to = 2
    /\ Len(outbox[1].msg.messageHistory) = 3
    /\ \E i \in 1 .. 3 : IsFrame(outbox[1].msg.messageHistory[i])
    /\ \E i \in 1 .. 3 : ~IsFrame(outbox[1].msg.messageHistory[i])

\* C7: a detach removes the port; the last detach closes the worker's socket,
\* if it has one that is not closed yet, with code 1001; a detach that leaves
\* other ports attached leaves socket, queue and history as they were.
DetachClosesOnLast ==
    [][\A port \in Ports :
          onTabDisconnected(port) =>
              /\ tabPorts' = tabPorts \ {port}
              /\ port \notin tabPorts'
              /\ (tabPorts' = {} /\ ws # 0) =>
                     /\ ws' = ws
                     /\ socks'[ws].readyState \in {"CLOSING", "CLOSED"}
                     /\ socks[ws].readyState \in {"CONNECTING", "OPEN"} =>
                            /\ socks'[ws].readyState = "CLOSING"
                            /\ socks'[ws].closeArgs # <<>>
                            /\ socks'[ws].closeArgs[1] = WS_CLOSE_REASON_GONE_AWAY
              /\ tabPorts' # {} =>
                     UNCHANGED <<ws, socks, outgoingQueue, messageHistory>>]_vars

\* the last port has detached from an open socket, which is closing with 1001
LastDetachWitness ==
    /\ tabPorts = {}
    /\ ws # 0
    /\ socks[ws].readyState = "CLOSING"
    /\ socks[ws].closeArgs = <<WS_CLOSE_REASON_GONE_AWAY, "all active tabs closed">>
    /\ wire # <<>>

\* C8: while no port is attached no socket is constructed.
NoConnectWithoutClients ==
    [][(tabPorts = {} /\ tabPorts' = {}) => Len(socks') = Len(socks)]_vars

\* C9: the Join that follows the attach of the only port, handled while online
\* with a non-empty queue, every socket closed and no timer pending,
\* constructs exactly one socket.
AttachStartsOneAttempt ==
    [][\A port \in Ports, payload \in JoinPayloads :
          (/\ onJoinChannel(port, payload)
           /\ tabPorts = {port}
           /\ outbox # <<>> /\ IsConnected(outbox[1]) /\ outbox[1].to = port
           /\ online
           /\ outgoingQueue # <<>>
           /\ Live(socks) = {}
           /\ timers = <<>>)
          => Len(socks') = Len(socks) + 1]_vars

\* C10: after an open at time T the close handler and its timers construct no
\* socket before T + MIN_RECONNECTION_INTERVAL_MS.
ReconnectNotBeforeMinInterval ==
    [][((\/ \E s \in 1 .. Len(socks) : onWsClose(s)
         \/ \E i \in 1 .. Len(timers) : TimerFires(i))
        /\ Len(socks') > Len(socks)
        /\ connectedTimestampMs # 0)
       => now >= connectedTimestampMs + MIN_RECONNECTION_INTERVAL_MS]_vars

\* C11: at most one socket is live (CONNECTING, OPEN or CLOSING) and it is the
\* one ws refers to; no socket is live while ws is null.
OneLiveTransport ==
    /\ Cardinality(Live(socks)) <= 1
    /\ Live(socks) \subseteq (IF ws = 0 THEN {} ELSE {ws})

\* the posts of the last handler to port p that carry message msg, or the
\* frame that encodes a message of the same id
PostsTo(box, p, id) ==
    {k \in 1 .. Len(box) : box[k].to = p /\ EntryId(box[k].msg) = id}

ContentFrames == {data \in BackendFrames : decodeKiteMsg(data).type \in {"PLAINTEXT", "BIN"}}

\* C12: the handler of a content message sent by port X posts it once to every
\* other attached port and not to X, and posts nothing else, so that each port
\* is posted the messages of X in the order they were handled; the handler of
\* a content message received from the backend posts it to every attached port.
FanOutToOthers ==
    [][/\ \A X \in Ports, payload \in NewPayloads \cup EditedPayloads :
             onTabMessage(X, payload) =>
                 /\ \A p \in Ports :
                        Cardinality(PostsTo(outbox', p, payload.messageId))
                            = IF p \in tabPorts \ {X} THEN 1 ELSE 0
                 /\ \A k \in 1 .. Len(outbox') : outbox'[k].msg = payload
       /\ \A s \in 1 .. Len(socks), data \in ContentFrames :
             onWsMessage(s, data) =>
                 \A p \in tabPorts :
                     PostsTo(outbox', p, decodeKiteMsg(data).messageId) # {}]_vars

\* C13: a Join that names another endpoint than the cached joinChannel throws
\* the configuration-conflict error and leaves joinChannel (endpoint and
\* eagerlyConnect), ws, the sockets, the queue and the history as they were.
RejectedJoinChangesNothing ==
    [][\A port \in Ports, payload \in JoinPayloads :
          (/\ onJoinChannel(port, payload)
           /\ joinChannel # Null
           /\ joinChannel.endpoint # payload.endpoint)
          => /\ thrown' = "Cannot use different chat endpoints for the same domain"
             /\ UNCHANGED <<joinChannel, ws, socks, outgoingQueue, messageHistory>>]_vars

\* C14: a plaintext or file message handled while joinChannel is null throws,
\* online or offline.
SendWithoutJoinThrows ==
    [][\A X \in Ports, payload \in NewPayloads :
          (onTabMessage(X, payload) /\ joinChannel = Null) => thrown' # None]_vars

\* C15: no handler that runs while the worker is offline constructs a socket.
NoConnectWhileOffline ==
    [][(~online /\ ~online') => Len(socks') = Len(socks)]_vars

\* C16: a reconnection timer constructs a socket only if no socket was
\* constructed since the close handler set it: the scheduled reconnection and
\* an immediate one (online transition, Send or eager Join) never both connect.
ScheduledOrImmediate ==
    [][\A i \in 1 .. Len(timers) :
          (TimerFires(i) /\ Len(socks') > Len(socks)) => Len(socks) = timers[i].sockets]_vars

\* C17: when the backend reports file messages zippedIds archived into message
\* M, afterwards M is stored (inserted when absent, updated when present) and
\* none of zippedIds remains in the store or in the chat element of any tab.
ZippedReplacesFiles ==
    [][\A tab \in Ports, zippedIds \in ZippedIds :
          onZippedMessage(tab, CanonicalId(1), zippedIds) =>
              /\ Stored(db', CanonicalId(1)) # {}
              /\ \A k \in 1 .. Len(zippedIds) :
                     /\ Stored(db', zippedIds[k]) = {}
                     /\ \A other \in Ports : Stored(view'[other], zippedIds[k]) = {}]_vars

\* C18: when the data of a message event cannot be decoded, an ERROR message
\* is posted to every attached port, the socket stays open, and queue and
\* history are unchanged.
DecodeFailureReported ==
    [][\A s \in 1 .. Len(socks), data \in MalformedFrames :
          onWsMessage(s, data) =>
              /\ \A p \in tabPorts :
                     \E k \in 1 .. Len(outbox') :
                         /\ outbox'[k].to = p
                         /\ ~IsFrame(outbox'[k].msg)
                         /\ outbox'[k].msg.type = "ERROR"
              /\ socks'[s].readyState = "OPEN"
              /\ UNCHANGED <<outgoingQueue, messageHistory>>]_vars

ErrorFrames == {data \in BackendFrames : decodeKiteMsg(data).type = "ERROR"}

\* C19: an ERROR frame of the backend is posted to every attached port as an
\* error notification that carries its code and reason.
ErrorFrameBroadcast ==
    [][\A s \in 1 .. Len(socks), data \in ErrorFrames :
          onWsMessage(s, data) =>
              \A p \in tabPorts :
                  \E k \in 1 .. Len(outbox') :
                      /\ outbox'[k].to = p
                      /\ \/ outbox'[k].msg = data
                         \/ /\ ~IsFrame(outbox'[k].msg)
                            /\ outbox'[k].msg.type = "ERROR"
                            /\ outbox'[k].msg.code = decodeKiteMsg(data).code
                            /\ outbox'[k].msg.reason = decodeKiteMsg(data).reason]_vars

\* C20: when the user of one tab deletes a message, the message is removed
\* from the shared store and from the chat element of every other tab.
DeletePropagates ==
    [][\A tab \in Ports : \A i \in 1 .. Len(view[tab]) :
          LET id == view[tab][i].messageId
          IN  onDeleteMessage(tab, [messageId |-> id]) =>
                  /\ Stored(db', id) = {}
                  /\ \A other \in Ports \ {tab} : Stored(view'[other], id) = {}]_vars

PlaintextPayloads == {payload \in NewPayloads \cup EditedPayloads : payload.type = "PLAINTEXT"}

\* C21: a plaintext message a client sends with status unknown is appended to
\* the history, enqueued (or written by the flush of the same handler) and
\* echoed to the other clients with status unknown, and a history entry of a
\* client's message with status unknown is left as it is by every step
\* that is not the handling of an Ack for its id.
UnknownUntilAck ==
    [][/\ \A port \in tabPorts, payload \in PlaintextPayloads :
              onTabMessage(port, payload) =>
                  /\ payload.status = "unknown"
                  /\ messageHistory' = Append(messageHistory, payload)
                  /\ WireEnvelopes' \o outgoingQueue' =
                         WireEnvelopes \o Append(outgoingQueue, payload)
                  /\ \A p \in tabPorts \ {port} :
                         \E k \in 1 .. Len(outbox') :
                             outbox'[k] = [to |-> p, msg |-> payload]
       /\ \A i \in 1 .. Len(messageHistory) :
              LET entry == messageHistory[i]
              IN  (/\ ~IsFrame(entry)
                   /\ entry.type = "PLAINTEXT"
                   /\ entry.status = "unknown"
                   /\ ~ \E s \in 1 .. Len(socks), data \in AckFrames :
                            /\ decodeKiteMsg(data).messageId = entry.messageId
                            /\ onWsMessage(s, data))
                  => /\ Len(messageHistory') >= i
                     /\ messageHistory'[i] = entry]_vars

\* a client's message is in the history with status unknown after the queue
\* was flushed, a frame was received, the worker went offline and the socket
\* closed
UnknownKeptWitness ==
    /\ Len(messageHistory) >= 1
    /\ ~IsFrame(messageHistory[1])
    /\ messageHistory[1].type = "PLAINTEXT"
    /\ messageHistory[1].status = "unknown"
    /\ outgoingQueue = <<>>
    /\ Len(wire) >= 2
    /\ received >= 1
    /\ Len(socks) = 1
    /\ socks[1].readyState = "CLOSED"
    /\ ~online

\* C22: a connection attempt that the close handler started with no delay and
\* that closes at the instant it was started, opened or not, is not followed
\* by another attempt with no delay: the reconnections do not form a tight
\* loop.
NoTightRetryLoop ==
    [][\A r \in retried :
          (onWsClose(r.socket) /\ r.at = now) => Len(socks') = Len(socks)]_vars

\* C23: a close event handled while the worker is offline or no port is
\* attached clears the transport reference and neither schedules nor starts a
\* reconnection; handled while online with a port attached it schedules one
\* reconnection or starts one, never both and never more.
CloseReconnectsOnce ==
    [][\A s \in 1 .. Len(socks) :
          onWsClose(s) =>
              IF ~online \/ tabPorts = {}
              THEN /\ ws' = 0
                   /\ timers' = timers
                   /\ Len(socks') = Len(socks)
              ELSE (Len(timers') - Len(timers)) + (Len(socks') - Len(socks)) = 1]_vars

\* both sockets constructed have closed, the second one while online with a
\* port attached, and the close handler left one timer for it
CloseReconnectsWitness ==
    /\ online
    /\ tabPorts # {}
    /\ Len(socks) = 2
    /\ socks[1].readyState = "CLOSED"
    /\ socks[2].readyState = "CLOSED"
    /\ Len(timers) = 1
    /\ timers[1].sockets = 2

\* C24: the online event starts a connection attempt if and only if a port is
\* attached and the outgoing queue is non-empty or the cached eagerlyConnect
\* flag is set; otherwise it records the online status and nothing else.
OnlineConnectsIff ==
    [][onOnline =>
          /\ online'
          /\ IF /\ tabPorts # {}
                /\ \/ Len(outgoingQueue) > 0
                   \/ joinChannel # Null /\ joinChannel.eagerlyConnect
             THEN /\ Len(socks') = Len(socks) + 1
                  /\ ws' = Len(socks')
                  /\ socks'[ws'].readyState = "CONNECTING"
             ELSE UNCHANGED <<ws, socks, timers, outgoingQueue, joinChannel>>]_vars

\* C25: the cached eagerlyConnect flag is the OR of the eagerlyConnect values
\* of the accepted Joins: an accepted Join ORs its value into the flag, a
\* rejected Join and every other handler leave the flag as it was; and an
\* accepted Join that leaves the flag set while ws is null constructs a
\* socket.
EagerIsOrOfAcceptedJoins ==
    [][LET before == joinChannel # Null /\ joinChannel.eagerlyConnect
           after == joinChannel' # Null /\ joinChannel'.eagerlyConnect
       IN  /\ \A port \in tabPorts, payload \in JoinPayloads :
                  onTabMessage(port, payload) =>
                      IF joinChannel # Null /\ joinChannel.endpoint # payload.endpoint
                      THEN after = before
                      ELSE /\ after = (before \/ payload.eagerlyConnect)
                           /\ (after /\ ws = 0) => /\ Len(socks') = Len(socks) + 1
                                                   /\ ws' = Len(socks')
           /\ after # before =>
                  \E port \in tabPorts, payload \in JoinPayloads : onTabMessage(port, payload)]_vars

Occurrences(seq, e) == Cardinality({i \in 1 .. Len(seq) : seq[i] = e})

QueuedEventuallyWritten ==
    (joinChannel # Null /\ online /\ tabPorts # {} /\ outgoingQueue # <<>>)
        ~> \/ joinChannel = Null
           \/ ~online
           \/ tabPorts = {}
           \/ outgoingQueue = <<>>
           \/ LiveScopeUsedUp

\* C28: when a socket opens, the cached Join frame is the first frame written
\* on it, every queued envelope is written on it after the Join frame, and
\* ONLINE is posted to every attached port.
JoinFirstOnEveryOpen ==
    [][\A s \in 1 .. Len(socks) :
          onWsOpen(s) =>
              /\ \A i \in 1 .. Len(wire) : wire[i].sock # s
              /\ Len(wire') = Len(wire) + 1 + Len(outgoingQueue)
              /\ wire'[Len(wire) + 1] = [sock |-> s, data |-> encodeKiteMsg(joinChannel)]
              /\ \A i \in 1 .. Len(outgoingQueue) :
                     wire'[Len(wire) + 1 + i] =
                         [sock |-> s, data |-> encodeKiteMsg(outgoingQueue[i])]
              /\ \A p \in tabPorts :
                     \E k \in 1 .. Len(outbox') :
                         outbox'[k] = [to |-> p, msg |-> [type |-> "ONLINE"]]]_vars

\* C29: once every channel message is delivered and every timeout has run, at
\* most one tab holds a websocket connection.
OneConnectionAtQuiescence == Quiescent => Cardinality(Connected) <= 1

\* C30: after a tab has called initClient, eventually some tab holds a
\* websocket connection.
EventuallyConnected == (constructed # {}) ~> (Connected # {})

====
